---------------------------- MODULE Spec2Model ----------------------------
(***************************************************************************)
(* coverage_lcov.converter: the Converter that turns the data of a         *)
(* coverage run into LCOV text (get_file_reporters, get_lcov, print_lcov,  *)
(* create_lcov) and the helper get_hits.                                   *)
(*                                                                         *)
(* Text is a sequence of lines (each line stands for its characters and    *)
(* the "\n" that ends it); a file name or a glob pattern is a sequence of  *)
(* one-character strings.  The coverage library is the collaborator: what  *)
(* it answers for a file (its analysis, its token lines, the error it      *)
(* raises and where) is the dataset, fixed when the Converter is built;    *)
(* the order in which it lists the file reporters is chosen anew at every  *)
(* call.                                                                   *)
(***************************************************************************)
EXTENDS Integers, Sequences, FiniteSets, TLC

\* ------------------------------------------------------------------ bounds

\* Largest line number of a file of the one-file datasets.
MaxLine == 3

\* Number of operations called on one Converter.
MaxCalls == 2

\* ------------------------------------------------------------- characters

\* The characters of the model's file names and patterns, in code point
\* order (Python compares strings by code point).
Alphabet == <<"*", ".", "/", "?", "a", "b", "h", "p", "v", "y", "U+00E9">>

Rank(c) == CHOOSE i \in 1..Len(Alphabet) : Alphabet[i] = c

\* What encoding="ascii" can encode.
IsAscii(c) == c # "U+00E9"

\* s < t on Python strings.
StrLess(s, t) ==
    \E k \in 1..Len(t) :
        /\ k <= Len(s) + 1
        /\ \A j \in 1..(k - 1) : s[j] = t[j]
        /\ (k = Len(s) + 1 \/ Rank(s[k]) < Rank(t[k]))

StartsWith(s, p) ==
    /\ Len(p) <= Len(s)
    /\ \A j \in 1..Len(p) : s[j] = p[j]

\* ------------------------------------------------------------ collaborator

\* The project root the collaborator resolves names against.
Root == <<"/">>

\* The file names a dataset may hold (PythonFileReporter.filename).
FileA == <<"/", "a", ".", "p", "y">>
FileB == <<"/", "b", ".", "p", "y">>
FileV == <<"/", "v", "/", "U+00E9", ".", "h">>
Paths == {FileA, FileB, FileV}

\* FileReporter.relative_filename(): the name below the project root.
relative_filename(f) == SubSeq(f, Len(Root) + 1, Len(f))

\* PythonFileReporter.should_be_python(): an extension that starts with
\* ".py", or no extension at all.
should_be_python(f) ==
    LET dots == {i \in 1..Len(f) : f[i] = "."}
    IN  \/ dots = {}
        \/ \E i \in dots :
              /\ \A j \in dots : j <= i
              /\ StartsWith(SubSeq(f, i, Len(f)), <<".", "p", "y">>)

\* fnmatch-style matching of one pattern: "*" is any run of characters, "?"
\* any one character, anything else itself.
RECURSIVE GlobMatch(_, _)
GlobMatch(p, s) ==
    IF p = <<>> THEN s = <<>>
    ELSE IF p[1] = "*"
         THEN \/ GlobMatch(Tail(p), s)
              \/ (s # <<>> /\ GlobMatch(p, Tail(s)))
         ELSE /\ s # <<>>
              /\ (p[1] = "?" \/ p[1] = s[1])
              /\ GlobMatch(Tail(p), Tail(s))

\* coverage.files.prep_patterns: a pattern that does not start with a
\* wildcard is also tried below the project root.
RECURSIVE prep_patterns(_)
prep_patterns(ps) ==
    IF ps = <<>> THEN <<>>
    ELSE LET p == ps[1]
         IN  (IF p # <<>> /\ p[1] \in {"*", "?"}
              THEN <<p>>
              ELSE <<p, Root \o p>>) \o prep_patterns(Tail(ps))

\* GlobMatcher_compat(patterns, name).match(filename): some pattern matches.
MatcherMatch(patterns, filename) ==
    \E i \in 1..Len(patterns) : GlobMatch(patterns[i], filename)

\* The entries _get_file_reporters lists: a bare reporter (a
\* PythonFileReporter), or a (reporter, morf) pair, depending on the
\* collaborator's version.  A reporter is identified by its filename.
Entry(shape, f) == [shape |-> shape, reporter |-> f, morf |-> f]

_unpack_file_reporter(fr) == fr.reporter

_unpack_morf(fr) == IF fr.shape = "bare" THEN fr.reporter ELSE fr.morf

\* ---------------------------------------------------------------- get_hits

None == -1

get_hits_wrong(line_num, analysis) ==
    IF line_num \in analysis.missing THEN 0 ELSE 1

get_hits(line_num, analysis) ==
    IF line_num \in analysis.missing THEN 0
    ELSE IF line_num \notin analysis.statements THEN None
    ELSE 1

\* ------------------------------------------------------------------- state

VARIABLES
    measured,       \* the file names of the loaded data (cov_obj.get_data())
    source,         \* per measured file: what the collaborator answers for it
    shape,          \* "bare" or "pair": the entries _get_file_reporters lists
    config,         \* cov_obj.config: report_include, report_omit, ignore_errors
    relative_path,  \* self.relative_path
    history,        \* the outcome of every operation called so far, in order
    stdout,         \* the lines written to standard output
    disk,           \* the destination files: whether each exists, and its lines
    warned          \* the file names cov_obj._warn was called for, in order

vars == <<measured, source, shape, config, relative_path, history, stdout,
          disk, warned>>

\* ------------------------------------------------------------------- lines

Line(tag, name, num, hits) ==
    [tag |-> tag, name |-> name, num |-> num, hits |-> hits]

TN == Line("TN:", <<>>, 0, 0)
SF(filename) == Line("SF:", filename, 0, 0)
DA(i, hits) == Line("DA:", <<>>, i, hits)
LF(n) == Line("LF:", <<>>, n, 0)
LH(n) == Line("LH:", <<>>, n, 0)
EndOfRecord == Line("end_of_record", <<>>, 0, 0)
\* The empty line a lone "\n" makes.
EmptyLine == Line("", <<>>, 0, 0)
\* What a destination file that exists before the run holds.
OldLine == Line("old", <<>>, 0, 0)

IsAsciiText(text) ==
    \A i \in 1..Len(text) :
        \A j \in 1..Len(text[i].name) : IsAscii(text[i].name[j])

\* ------------------------------------------------------ get_file_reporters

IncludeAll(file_reporters) == file_reporters

\* Lines 64-68.
IncludeFilter(file_reporters) ==
    IF config.report_include # <<>>
    THEN SelectSeq(file_reporters,
                   LAMBDA fr : MatcherMatch(prep_patterns(config.report_include),
                                            _unpack_file_reporter(fr)))
    ELSE file_reporters

\* Lines 70-76.
OmitFilter(file_reporters) ==
    IF config.report_omit # <<>>
    THEN SelectSeq(file_reporters,
                   LAMBDA fr : ~MatcherMatch(prep_patterns(config.report_omit),
                                             _unpack_file_reporter(fr)))
    ELSE file_reporters

get_file_reporters_unchecked(listing) ==
    [raised |-> "none", value |-> OmitFilter(IncludeFilter(listing))]

\* listing: what self.cov_obj._get_file_reporters(None) returns at this call.
get_file_reporters(listing) ==
    LET file_reporters == OmitFilter(IncludeFilter(listing))
    IN  IF file_reporters = <<>>
        THEN [raised |-> "CoverageException", value |-> <<>>]
        ELSE [raised |-> "none", value |-> file_reporters]

\* ---------------------------------------------------------------- get_lcov

\* fr1 < fr2 on the listed entries: FileReporter.__lt__ compares the
\* filenames, and a pair compares as a tuple, its reporter first.
EntryLess(fr1, fr2) ==
    StrLess(_unpack_file_reporter(fr1), _unpack_file_reporter(fr2))

RECURSIVE InsertSorted(_, _)
InsertSorted(fr, s) ==
    IF s = <<>> THEN <<fr>>
    ELSE IF EntryLess(fr, s[1]) THEN <<fr>> \o s
    ELSE <<s[1]>> \o InsertSorted(fr, Tail(s))

RECURSIVE SortFrom(_, _)
SortFrom(rest, done) ==
    IF rest = <<>> THEN done
    ELSE SortFrom(Tail(rest), InsertSorted(rest[1], done))

unsorted(file_reporters) == file_reporters

\* sorted(file_reporters), line 95.
sorted(file_reporters) == SortFrom(file_reporters, <<>>)

CountsAsHitWrong(hits) == hits >= 0

\* "if hits > 0", line 113.
CountsAsHit(hits) == hits > 0

\* Lines 110-115: the loop over enumerate(token_lines, 1), for the n token
\* lines the iterator yields; acc is (output, lines_hit).
RECURSIVE TokenLoop(_, _, _, _)
TokenLoop(i, n, analysis, acc) ==
    IF i > n THEN acc
    ELSE LET hits == get_hits(i, analysis)
         IN  TokenLoop(i + 1, n, analysis,
                 IF hits # None
                 THEN [output |-> Append(acc.output, DA(i, hits)),
                       lines_hit |-> acc.lines_hit +
                                     (IF CountsAsHit(hits) THEN 1 ELSE 0)]
                 ELSE acc)

\* Lines 97-119, the body of the try: exc is the error it raises ("none"
\* when it ends), output the value of output when it leaves the body.
TryBody(file_reporter, output) ==
    LET answer == source[_unpack_morf(file_reporter)]
        fr == _unpack_file_reporter(file_reporter)
        filename == IF relative_path THEN relative_filename(fr) ELSE fr
        fails == answer.raises # "none"
    IN  IF fails /\ answer.site \in {"analyze", "tokens"}
        THEN [exc |-> answer.raises, output |-> output]
        ELSE LET yielded == IF fails THEN answer.raiseAfter ELSE answer.ntokens
                 loop == TokenLoop(1, yielded, answer,
                             [output |-> output \o <<TN, SF(filename)>>,
                              lines_hit |-> 0])
             IN  IF fails
                 THEN [exc |-> answer.raises, output |-> loop.output]
                 ELSE [exc |-> "none",
                       output |-> loop.output \o
                                  <<LF(Cardinality(answer.statements)),
                                    LH(loop.lines_hit),
                                    EndOfRecord>>]

HandlerSwallow(file_reporter, exc) ==
    [raised |-> IF exc = "NotPython" /\ ~config.ignore_errors
                THEN "NotPython" ELSE "none",
     warn |-> <<>>]

\* Lines 121-136, the except clauses: the error that leaves the loop
\* ("none" when the loop goes on) and the warning made.
Handler(file_reporter, exc) ==
    IF exc = "NoSource"
    THEN [raised |-> IF config.ignore_errors THEN "none" ELSE "NoSource",
          warn |-> <<>>]
    ELSE IF exc = "NotPython"
    THEN IF file_reporter.shape = "pair"
         \* a tuple has no should_be_python attribute
         THEN [raised |-> "AttributeError", warn |-> <<>>]
         ELSE IF should_be_python(file_reporter.reporter)
              THEN IF config.ignore_errors
                   THEN [raised |-> "none", warn |-> <<file_reporter.reporter>>]
                   ELSE [raised |-> "NotPython", warn |-> <<>>]
              ELSE [raised |-> "none", warn |-> <<>>]
    ELSE [raised |-> "none", warn |-> <<>>]

\* Lines 95-138: the loop over the sorted entries.
RECURSIVE FileLoop(_, _, _)
FileLoop(frs, output, warns) ==
    IF frs = <<>>
    THEN [raised |-> "none", text |-> output, warnings |-> warns]
    ELSE LET body == TryBody(frs[1], output)
             h == Handler(frs[1], body.exc)
         IN  IF h.raised # "none"
             THEN [raised |-> h.raised, text |-> <<>>, warnings |-> warns]
             ELSE FileLoop(Tail(frs), body.output, warns \o h.warn)

get_lcov(listing) ==
    LET file_reporters == get_file_reporters(listing)
    IN  IF file_reporters.raised # "none"
        THEN [raised |-> file_reporters.raised, text |-> <<>>, warnings |-> <<>>]
        ELSE FileLoop(sorted(file_reporters.value), <<>>, <<>>)

\* -------------------------------------------------------------- operations

\* Every order in which the collaborator may list the measured files.
RECURSIVE Orders(_)
Orders(S) ==
    IF S = {} THEN {<<>>}
    ELSE UNION {{<<Entry(shape, f)>> \o s : s \in Orders(S \ {f})} : f \in S}

Outcome(op, raised, returned, dest) ==
    [op |-> op, raised |-> raised, returned |-> returned, dest |-> dest]

print_no_end(lcov_str) == lcov_str

\* print(lcov_str): the text, then the "\n" print ends its output with.
print(lcov_str) == lcov_str \o <<EmptyLine>>

\* Lines 152-153: open(path, "w", encoding="ascii") makes the file empty,
\* write encodes the whole text or raises and writes nothing.
WriteFile(lcov_str) ==
    IF IsAsciiText(lcov_str)
    THEN [raised |-> "none", file |-> [exists |-> TRUE, content |-> lcov_str]]
    ELSE [raised |-> "UnicodeEncodeError",
          file |-> [exists |-> TRUE, content |-> <<>>]]

\* text = self.get_lcov(), called from outside.
GetLcov ==
    /\ Len(history) < MaxCalls
    /\ \E listing \in Orders(measured) :
          \E r \in {get_lcov(listing)} :
              /\ history' = Append(history,
                                   Outcome("get_lcov", r.raised, r.text, ""))
              /\ warned' = warned \o r.warnings
    /\ UNCHANGED <<measured, source, shape, config, relative_path, stdout, disk>>

\* self.print_lcov(), lines 140-147.
PrintLcov ==
    /\ Len(history) < MaxCalls
    /\ \E listing \in Orders(measured) :
          \E r \in {get_lcov(listing)} :
              /\ history' = Append(history,
                                   Outcome("print_lcov", r.raised, <<>>, ""))
              /\ warned' = warned \o r.warnings
              /\ stdout' = IF r.raised = "none"
                           THEN stdout \o print(r.text)
                           ELSE stdout
    /\ UNCHANGED <<measured, source, shape, config, relative_path, disk>>

\* self.create_lcov(output_file_path), lines 149-153.
CreateLcov(output_file_path) ==
    /\ Len(history) < MaxCalls
    /\ \E listing \in Orders(measured) :
          \E r \in {get_lcov(listing)} :
              IF r.raised # "none"
              THEN /\ history' = Append(history,
                          Outcome("create_lcov", r.raised, <<>>, output_file_path))
                   /\ warned' = warned \o r.warnings
                   /\ disk' = disk
              ELSE \E w \in {WriteFile(r.text)} :
                   /\ history' = Append(history,
                          Outcome("create_lcov", w.raised, <<>>, output_file_path))
                   /\ warned' = warned \o r.warnings
                   /\ disk' = [disk EXCEPT ![output_file_path] = w.file]
    /\ UNCHANGED <<measured, source, shape, config, relative_path, stdout>>

\* ----------------------------------------------------------------- datasets

\* The destinations create_lcov is called with: one that does not exist
\* before the run, one that does.
DestPaths == {"new.info", "old.info"}

Answer(statements, missing, ntokens, raises, site, raiseAfter) ==
    [statements |-> statements, missing |-> missing, ntokens |-> ntokens,
     raises |-> raises, site |-> site, raiseAfter |-> raiseAfter]

\* The analyses of files of at most n lines: Analysis.missing is the
\* statements that were not executed.
Analyses(n) ==
    {<<st, mi>> \in (SUBSET (1..n)) \X (SUBSET (1..n)) : mi \subseteq st}

Errors == {"NoSource", "NotPython"}

\* What the collaborator may answer for the file of a one-file dataset: any
\* analysis and any number of token lines up to MaxLine, and either no
\* error, or an error raised by _analyze, by source_token_lines() or by
\* its iterator after it has yielded some of the lines.
OneFileAnswers ==
    {Answer(a[1], a[2], n, "none", "analyze", 0) :
        a \in Analyses(MaxLine), n \in 0..MaxLine}
    \cup
    {Answer(a[1], a[2], k, e, "iter", k) :
        a \in Analyses(MaxLine), k \in 0..MaxLine, e \in Errors}
    \cup
    {Answer({}, {}, 0, e, site, 0) : e \in Errors, site \in {"analyze", "tokens"}}

\* The analysis of a file of the many-file datasets.
AnalysisOf(f) ==
    IF f = FileA THEN <<{1, 2}, {2}, 2>>
    ELSE IF f = FileB THEN <<{1}, {}, 2>>
    ELSE <<{2}, {2}, 2>>

\* What the collaborator may answer for a file of a many-file dataset: its
\* analysis, and either no error, or the file's source missing (found by
\* _analyze, or by the first step of the token line iterator), or the file
\* not being Python (found by _analyze).
ManyFileAnswers(f) ==
    LET a == AnalysisOf(f)
    IN  {Answer(a[1], a[2], a[3], "none", "analyze", 0),
         Answer(a[1], a[2], a[3], "NoSource", "analyze", 0),
         Answer(a[1], a[2], a[3], "NoSource", "iter", 0),
         Answer(a[1], a[2], a[3], "NotPython", "analyze", 0)}

IncludePatterns == {<<>>, <<<<"*", ".", "p", "y">>>>}
OmitPatterns == {<<>>, <<<<"a", "*">>, <<"*", "/", "v", "/", "*">>>>}

Config(include, omit, ignore) ==
    [report_include |-> include, report_omit |-> omit, ignore_errors |-> ignore]

\* Nothing called yet, nothing written; one destination exists already.
Fresh ==
    /\ history = <<>>
    /\ stdout = <<>>
    /\ disk = [d \in DestPaths |->
                 IF d = "old.info"
                 THEN [exists |-> TRUE, content |-> <<OldLine>>]
                 ELSE [exists |-> FALSE, content |-> <<>>]]
    /\ warned = <<>>

\* The state after Converter.__init__ (lines 40-52) on data that holds any
\* of the files, with or without include and omit patterns.
Init ==
    /\ measured \in SUBSET Paths
    /\ source \in {s \in [measured -> UNION {ManyFileAnswers(f) : f \in Paths}] :
                      \A f \in measured : s[f] \in ManyFileAnswers(f)}
    /\ config \in {Config(inc, om, ignore) :
                      inc \in IncludePatterns, om \in OmitPatterns,
                      ignore \in BOOLEAN}
    /\ shape \in {"bare", "pair"}
    /\ relative_path = FALSE
    /\ Fresh

Next ==
    \/ GetLcov
    \/ PrintLcov
    \/ \E output_file_path \in DestPaths : CreateLcov(output_file_path)

Spec == Init /\ [][Next]_vars

\* The state after Converter.__init__ on data that holds one file, with no
\* include or omit pattern.
InitLines ==
    /\ measured = {FileA}
    /\ source \in [measured -> OneFileAnswers]
    /\ config \in {Config(<<>>, <<>>, ignore) : ignore \in BOOLEAN}
    /\ shape \in {"bare", "pair"}
    /\ relative_path \in BOOLEAN
    /\ Fresh

\* get_lcov alone, on one file with any analysis.
SpecLines == InitLines /\ [][GetLcov]_vars

\* ------------------------------------------------------- reading a report

\* The runs of get_lcov that returned a text.
GetRuns ==
    {k \in 1..Len(history) :
        history[k].op = "get_lcov" /\ history[k].raised = "none"}

\* The measured file an SF: line names.
FileNamed(name) == IF relative_path THEN Root \o name ELSE name

\* The places of the DA: lines that follow place i with nothing between.
DARun(text, i) ==
    {j \in (i + 1)..Len(text) : \A m \in (i + 1)..j : text[m].tag = "DA:"}

\* The place of the first line after place i that is no DA: line.
AfterRun(text, i) == i + Cardinality(DARun(text, i)) + 1

\* Place i holds the SF: line of a block that has its summary.
CompleteBlock(text, i) ==
    /\ text[i].tag = "SF:"
    /\ AfterRun(text, i) + 1 <= Len(text)
    /\ text[AfterRun(text, i)].tag = "LF:"
    /\ text[AfterRun(text, i) + 1].tag = "LH:"

\* The block at place i has one DA: line per statement, hit count 0 for
\* the missed ones and 1 for the others, and the summary LF:N, LH:N-M.
BlockCounts(text, i) ==
    LET a == source[FileNamed(text[i].name)]
        N == Cardinality(a.statements)
        M == Cardinality(a.missing)
        run == DARun(text, i)
    IN  /\ Cardinality(run) = N
        /\ Cardinality({j \in run : text[j].hits = 0}) = M
        /\ Cardinality({j \in run : text[j].hits = 1}) = N - M
        /\ text[AfterRun(text, i)] = LF(N)
        /\ text[AfterRun(text, i) + 1] = LH(N - M)

\* The names of the SF: lines of a text, in order.
RECURSIVE SFNames(_)
SFNames(text) ==
    IF text = <<>> THEN <<>>
    ELSE (IF text[1].tag = "SF:" THEN <<FileNamed(text[1].name)>> ELSE <<>>)
         \o SFNames(Tail(text))

Range(s) == {s[i] : i \in 1..Len(s)}

\* f passes the include and omit patterns of the configuration.
IsEligible(f) ==
    /\ \/ config.report_include = <<>>
       \/ MatcherMatch(prep_patterns(config.report_include), f)
    /\ \/ config.report_omit = <<>>
       \/ ~MatcherMatch(prep_patterns(config.report_omit), f)

EligibleFiles == {f \in measured : IsEligible(f)}

InitialDisk ==
    [d \in DestPaths |->
        IF d = "old.info"
        THEN [exists |-> TRUE, content |-> <<OldLine>>]
        ELSE [exists |-> FALSE, content |-> <<>>]]

\* -------------------------------------------------------------------- C1

\* C1 as stated: in every text get_lcov returns, every block with its
\* summary has N DA: lines (N the file's statement count), M of them with
\* hit count 0 (M its missed count) and N - M with hit count 1, and the
\* summary LF:N, LH:N-M, whatever the number of token lines.
C1_AnyTokenLines ==
    \A k \in GetRuns :
        \A i \in 1..Len(history[k].returned) :
            CompleteBlock(history[k].returned, i)
                => BlockCounts(history[k].returned, i)

\* C1 amended: the same, for the files whose token lines reach every
\* statement line (no statement line number exceeds the token line count).
C1_TokenLinesCoverStatements ==
    \A k \in GetRuns :
        \A i \in 1..Len(history[k].returned) :
            LET text == history[k].returned
            IN  (/\ CompleteBlock(text, i)
                 /\ source[FileNamed(text[i].name)].statements
                        \subseteq 1..source[FileNamed(text[i].name)].ntokens)
                    => BlockCounts(text, i)

\* A block of a file with missed and hit statements and a token line that
\* is no statement.
C1_Witness ==
    \E k \in GetRuns :
        \E i \in 1..Len(history[k].returned) :
            LET text == history[k].returned
                a == source[FileNamed(text[i].name)]
            IN  /\ CompleteBlock(text, i)
                /\ a.statements \subseteq 1..a.ntokens
                /\ a.missing # {}
                /\ a.missing # a.statements
                /\ a.statements # 1..a.ntokens

\* -------------------------------------------------------------------- C2

\* C2: for a line number that is no statement of the file, get_hits is
\* None, and no text get_lcov returns has a DA: line for it in the file's
\* block.
C2_NoRecordForNonStatement ==
    /\ \A f \in measured :
          \A i \in 1..(MaxLine + 1) :
              i \notin source[f].statements => get_hits(i, source[f]) = None
    /\ \A k \in GetRuns :
          \A i \in 1..Len(history[k].returned) :
              LET text == history[k].returned
              IN  text[i].tag = "SF:" =>
                      \A j \in DARun(text, i) :
                          text[j].num \in source[FileNamed(text[i].name)].statements

\* The loop went over a token line that is no statement, and over one that is.
C2_Witness ==
    \E k \in GetRuns :
        \E i \in 1..Len(history[k].returned) :
            LET text == history[k].returned
                a == source[FileNamed(text[i].name)]
            IN  /\ CompleteBlock(text, i)
                /\ DARun(text, i) # {}
                /\ \E n \in 1..a.ntokens : n \notin a.statements

\* -------------------------------------------------------------------- C3

\* C3: whatever the order of the listing, get_file_reporters returns the
\* listed entries of the files that pass the include patterns (or there
\* are none) and no omit pattern (or there are none), in the listing's
\* order and unchanged, and it returns whenever there is such a file; no
\* text get_lcov returns names another file, so none that matches both an
\* include and an omit pattern.
C3_ExactlyTheEligibleFiles ==
    \A eligible \in {EligibleFiles} :
        /\ \A listing \in Orders(measured) :
              \A r \in {get_file_reporters(listing)} :
                  /\ r.raised = "none" =>
                        r.value = SelectSeq(listing,
                                            LAMBDA fr : fr.reporter \in eligible)
                  /\ r.raised = "none" <=> eligible # {}
        /\ \A k \in GetRuns :
              \A f \in Range(SFNames(history[k].returned)) :
                  /\ f \in eligible
                  /\ ~(/\ config.report_include # <<>>
                       /\ config.report_omit # <<>>
                       /\ MatcherMatch(prep_patterns(config.report_include), f)
                       /\ MatcherMatch(prep_patterns(config.report_omit), f))

\* Include and omit patterns are set, a measured file matches both, another
\* only the include patterns, a third none, and get_lcov returned the
\* block of the second alone.
C3_Witness ==
    /\ config.report_include # <<>>
    /\ config.report_omit # <<>>
    /\ measured = Paths
    /\ MatcherMatch(prep_patterns(config.report_include), FileA)
    /\ MatcherMatch(prep_patterns(config.report_omit), FileA)
    /\ ~MatcherMatch(prep_patterns(config.report_include), FileV)
    /\ \E k \in GetRuns : SFNames(history[k].returned) = <<FileB>>

\* -------------------------------------------------------------------- C4

\* C4: when no measured file passes the patterns (no file measured
\* included), every operation called has raised the "No data to report"
\* error and returned no text, nothing is on standard output, and the
\* destination files are as they were before.
C4_NoDataNoOutput ==
    EligibleFiles = {} =>
        /\ \A k \in 1..Len(history) :
              /\ history[k].raised = "CoverageException"
              /\ history[k].returned = <<>>
        /\ stdout = <<>>
        /\ disk = InitialDisk

\* Files were measured, the patterns leave none, and print_lcov and
\* create_lcov were both called.
C4_Witness ==
    /\ measured # {}
    /\ EligibleFiles = {}
    /\ \E k \in 1..Len(history) : history[k].op = "print_lcov"
    /\ \E k \in 1..Len(history) : history[k].op = "create_lcov"

\* -------------------------------------------------------------------- C5

\* The eligible files the collaborator raises no error for.
Succeeding == {f \in EligibleFiles : source[f].raises = "none"}

RECURSIVE CountTag(_, _)
CountTag(text, tag) ==
    IF text = <<>> THEN 0
    ELSE (IF text[1].tag = tag THEN 1 ELSE 0) + CountTag(Tail(text), tag)

\* C5: with ignore_errors, when the eligible files that fail all raise
\* NoSource (at whatever point) and some do, get_lcov raises nothing and
\* its text has one block per succeeding file and no line of a failing one.
C5_FailingFilesLeaveNoText ==
    (/\ config.ignore_errors
     /\ \A f \in EligibleFiles : source[f].raises \in {"none", "NoSource"}
     /\ \E f \in EligibleFiles : source[f].raises = "NoSource")
    => \A k \in 1..Len(history) :
          history[k].op = "get_lcov" =>
              /\ history[k].raised = "none"
              /\ Range(SFNames(history[k].returned)) = Succeeding
              /\ CountTag(history[k].returned, "SF:") = Cardinality(Succeeding)
              /\ CountTag(history[k].returned, "TN:") = Cardinality(Succeeding)

\* C5 when no file fails while its block is being written.
C5_NoErrorInBlock ==
    (\A f \in measured : source[f].raises = "none" \/ source[f].site # "iter")
        => C5_FailingFilesLeaveNoText

\* -------------------------------------------------------------------- C6

\* Without ignore_errors, the processing of eligible file f ends the run
\* with an error.
Aborts(f) ==
    \/ source[f].raises = "NoSource"
    \/ /\ source[f].raises = "NotPython"
       /\ (shape = "pair" \/ should_be_python(f))

\* The first eligible file, in the order of the names, that ends the run
\* raises NoSource.
NoSourceEndsRun ==
    \E f \in EligibleFiles :
        /\ source[f].raises = "NoSource"
        /\ \A g \in EligibleFiles : StrLess(g, f) => ~Aborts(g)

\* C6: without ignore_errors, when an eligible file raises NoSource, every
\* operation called has raised NoSource and returned no text, nothing is
\* on standard output, and the destination files are as they were before.
C6_NoSourceNoOutput ==
    (~config.ignore_errors /\ NoSourceEndsRun) =>
        /\ \A k \in 1..Len(history) :
              /\ history[k].raised = "NoSource"
              /\ history[k].returned = <<>>
        /\ stdout = <<>>
        /\ disk = InitialDisk

\* The failing file comes after a file whose block was accumulated, and
\* raises while its own block is being written; print_lcov and create_lcov
\* on the existing destination were called.
C6_Witness ==
    /\ ~config.ignore_errors
    /\ EligibleFiles = {FileA, FileB}
    /\ source[FileA].raises = "none"
    /\ source[FileB].raises = "NoSource"
    /\ source[FileB].site = "iter"
    /\ \E k \in 1..Len(history) : history[k].op = "print_lcov"
    /\ \E k \in 1..Len(history) :
          history[k].op = "create_lcov" /\ history[k].dest = "old.info"

\* -------------------------------------------------------------------- C7

\* s is in strictly ascending order of the names.
Ascending(s) ==
    \A i \in 1..(Len(s) - 1) : StrLess(s[i], s[i + 1])

\* C7: any two runs of get_lcov that returned a text returned the same
\* text, whatever the orders of the two listings, and the blocks of a
\* returned text are in ascending order of the file names.
C7_SameTextInPathOrder ==
    /\ \A j, k \in GetRuns : history[j].returned = history[k].returned
    /\ \A k \in GetRuns : Ascending(SFNames(history[k].returned))

\* Two runs of get_lcov on three files, each returning three blocks.
C7_Witness ==
    /\ Cardinality(GetRuns) = 2
    /\ \A k \in GetRuns : Len(SFNames(history[k].returned)) = 3

\* -------------------------------------------------------------------- C8

\* The eligible files that raise NotPython and should be Python.
Unparseable ==
    {f \in EligibleFiles : source[f].raises = "NotPython" /\ should_be_python(f)}

Count(s, x) == Cardinality({i \in 1..Len(s) : s[i] = x})

\* C8: when the only eligible files that fail are files that should be
\* Python and raise NotPython, then for a bare reporter and for a pair
\* alike: with ignore_errors every run of get_lcov returns a text with no
\* line of such a file, and each run made one warning per such file;
\* without ignore_errors every operation raises NotPython.
C8_UnparseableWarnsOrPropagates ==
    (/\ Unparseable # {}
     /\ \A f \in EligibleFiles : source[f].raises = "none" \/ f \in Unparseable)
    => IF config.ignore_errors
       THEN /\ \A k \in 1..Len(history) :
                  history[k].op = "get_lcov" =>
                      /\ history[k].raised = "none"
                      /\ Range(SFNames(history[k].returned)) = Succeeding
            /\ \A f \in Unparseable : Count(warned, f) = Len(history)
            /\ Range(warned) \subseteq Unparseable
       ELSE \A k \in 1..Len(history) : history[k].raised = "NotPython"

\* C8 for the bare reporters alone.
C8_BareOnly == shape = "bare" => C8_UnparseableWarnsOrPropagates

\* -------------------------------------------------------------------- C9

\* The operations of a kind that ended without an error.
Ended(op) ==
    {k \in 1..Len(history) : history[k].op = op /\ history[k].raised = "none"}

\* n copies of s, one after the other.
RECURSIVE Repeat(_, _)
Repeat(s, n) == IF n = 0 THEN <<>> ELSE s \o Repeat(s, n - 1)

\* C9 as stated: after get_lcov returned a text, standard output after one
\* print_lcov is that text, and a destination create_lcov wrote holds
\* that text.
C9_SameReportDelivered ==
    \A k \in GetRuns :
        /\ Cardinality(Ended("print_lcov")) = 1 => stdout = history[k].returned
        /\ \A c \in Ended("create_lcov") :
              disk[history[c].dest].content = history[k].returned

\* C9 amended: after get_lcov returned a text, every print_lcov has
\* written that text and one newline after it, and a destination
\* create_lcov wrote exists and holds that text and nothing else.
C9_PrintAddsNewline ==
    \A k \in GetRuns :
        /\ stdout = Repeat(history[k].returned \o <<EmptyLine>>,
                           Cardinality(Ended("print_lcov")))
        /\ \A c \in Ended("create_lcov") :
              /\ disk[history[c].dest].exists
              /\ disk[history[c].dest].content = history[k].returned

\* get_lcov returned two blocks or more and print_lcov wrote them.
C9_Witness ==
    /\ \E k \in GetRuns : Len(SFNames(history[k].returned)) >= 2
    /\ Ended("print_lcov") # {}

\* get_lcov returned a block and create_lcov wrote it over a file that
\* held something else.
C9_FileWitness ==
    /\ \E k \in GetRuns : Len(SFNames(history[k].returned)) >= 1
    /\ \E c \in Ended("create_lcov") : history[c].dest = "old.info"

\* ------------------------------------------------------------------- C10

\* From place i on, the text is whole blocks: TN:, SF:, DA: lines in
\* ascending order of the line numbers, LF:, LH:, end_of_record.
RECURSIVE WholeBlocksFrom(_, _)
WholeBlocksFrom(text, i) ==
    IF i > Len(text) THEN TRUE
    ELSE /\ text[i] = TN
         /\ i + 1 <= Len(text)
         /\ text[i + 1].tag = "SF:"
         /\ LET e == AfterRun(text, i + 1)
            IN  /\ e + 2 <= Len(text)
                /\ \A j \in DARun(text, i + 1) :
                      j + 1 < e => text[j].num < text[j + 1].num
                /\ text[e].tag = "LF:"
                /\ text[e + 1].tag = "LH:"
                /\ text[e + 2] = EndOfRecord
                /\ WholeBlocksFrom(text, e + 3)

\* C10: every text get_lcov returns is whole blocks.
C10_WholeBlocks ==
    \A k \in GetRuns : WholeBlocksFrom(history[k].returned, 1)

\* C10 when no file fails while its block is being written.
C10_NoErrorInBlock ==
    (\A f \in measured : source[f].raises = "none" \/ source[f].site # "iter")
        => C10_WholeBlocks

=============================================================================
